---- MODULE Spec2Model ----
(***************************************************************************)
(* Model of pkg/workerpool: the bounded task queue, the executors, the     *)
(* retry dispatcher, the ordered shutdown of WorkerPool.Stop and the       *)
(* retry policy functions of retry.go.                                     *)
(*                                                                         *)
(* Conventions.                                                            *)
(*  - A Go error value is a sequence of length 0 (nil) or 1 (<<msg>>),     *)
(*    msg being the text of err.Error() as a tuple of characters.          *)
(*  - A buffered channel is a sequence (its buffer) plus membership of its *)
(*    name in closed.                                                      *)
(*  - A panic (send on a closed channel) sets panicked; the process is     *)
(*    then dead and no action is enabled.                                  *)
(*  - The statistics of monitor.go are kept exactly: a processing time is  *)
(*    an integer count of milliseconds and a float64 mean is the reduced   *)
(*    fraction <<num, den>>; float64 rounding is not modelled.  A Go map   *)
(*    is a reference into maps, so that two PoolStats values can share one.*)
(*  - A time.Duration is an integer count of ticks; float64 factors are    *)
(*    rationals <<num, den>> and the float64 -> Duration conversion        *)
(*    truncates toward zero, as Go's conversion does.                      *)
(***************************************************************************)
EXTENDS Integers, Sequences, FiniteSets, TLC

VARIABLES
    tasks,          \* wp.tasks: buffer of the Task Queue
    retryQueue,     \* wp.retryQueue: buffer of the Retry Queue
    results,        \* wp.results: buffer of the Result Channel
    closed,         \* the channels that have been closed
    processors,     \* wp.processors: task type -> registered processor
    retryPolicies,  \* wp.retryPolicies: task type -> RetryPolicy
    started,        \* Start() has run
    worker,         \* per executor goroutine: position, held task, error
    dispatcher,     \* the retryHandler goroutine: position, held task, delay
    stop,           \* position of the caller inside Stop()
    submitted,      \* number of AddTask calls that have completed
    panicked,       \* the process died of a send on a closed channel
    invoked,        \* history: handler invocations per task id
    emitted,        \* history: per task id, the results placed on wp.results
    setPolicy,      \* the caller inside SetRetryPolicy: position, arguments, calls made
    probe,          \* argument/result record of the pure-function specifications
    updateCh,       \* m.updateCh: buffer of the monitor's inlet
    stats,          \* m.stats: the live PoolStats, its map held by reference
    maps,           \* the allocated TaskTypeStats maps, by reference; 1 is the live one
    mutex,          \* m.mutex: "free", or "W" while write-locked
    updateLoop,     \* the updateLoop goroutine: position and the result being applied
    monitorStop,    \* position of the caller inside Monitor.Stop()
    snapshots,      \* the PoolStats values GetStats has returned, as their callers hold them
    consumer,       \* the result loop of main: position and the result in hand
    notified,       \* history: number of OnTaskResult calls
    dropped         \* history: number of OnTaskResult calls that found the inlet full

monVars == <<updateCh, stats, maps, mutex, updateLoop, monitorStop, snapshots, consumer,
             notified, dropped>>

vars == <<tasks, retryQueue, results, closed, processors, retryPolicies, started,
          worker, dispatcher, stop, submitted, panicked, invoked, emitted, probe, monVars, setPolicy>>

poolVars == <<tasks, retryQueue, results, closed, processors, retryPolicies, started,
              worker, dispatcher, stop, submitted, panicked, invoked, emitted, setPolicy>>

-----------------------------------------------------------------------------
(* Bounds of the model *)

\* number of tasks the producer submits (ids 1..NumTasks)
NumTasks == 2
\* wp.workers, the argument of NewWorkerPool
NumWorkers == 2
\* capacity of wp.tasks in the model (make(chan Task, 10) in the code)
TasksCap == 1
\* capacity of wp.retryQueue in the model (make(chan Task, 50) in the code)
RetryQueueCap == 1
\* capacity of wp.results in the model (make(chan TaskResult, 10) in the code)
ResultsCap == 1

TaskIDs == 1..NumTasks
Workers == 0..(NumWorkers - 1)

-----------------------------------------------------------------------------
(* Errors *)

NilErr == <<>>
Err(msg) == <<msg>>
IsNil(err) == Len(err) = 0
\* err.Error()
ErrorMsg(err) == err[1]

\* "SMTP接続エラー: メール送信に失敗しました" (EmailProcessor)
MsgSMTP == <<"S", "M">>
\* "画像形式エラー: サポートされていない形式です" (ImageProcessor)
MsgFormat == <<"F", "m">>
\* "タスクタイプ %s のプロセッサが登録されていません" (executeTask)
MsgNoProcessor == <<"T", "y">>

\* signatures of retryable errors used by the policies of the model
SigSMTP == <<"S">>
SigNoProcessor == <<"T">>

-----------------------------------------------------------------------------
(* retry.go *)

\* Go's float64 -> int64 conversion of the rational n/d (d > 0): toward zero
Trunc(n, d) == IF n >= 0 THEN n \div d ELSE -((-n) \div d)

\* CalculateRetryDelay as classic exponential backoff: InitialDelay x BackoffFactor^attemptCount
CalculateRetryDelayDoubling(rp, attemptCount) ==
    IF attemptCount <= 0
    THEN rp.InitialDelay
    ELSE LET delayDuration ==
                 Trunc(rp.InitialDelay * (rp.BackoffFactor[1] ^ attemptCount),
                       rp.BackoffFactor[2] ^ attemptCount)
         IN  IF delayDuration > rp.MaxDelay THEN rp.MaxDelay ELSE delayDuration

\* CalculateRetryDelay without the MaxDelay ceiling
CalculateRetryDelayNoCap(rp, attemptCount) ==
    IF attemptCount <= 0
    THEN rp.InitialDelay
    ELSE Trunc(rp.InitialDelay * (rp.BackoffFactor[1] * attemptCount),
               rp.BackoffFactor[2])

CalculateRetryDelay(rp, attemptCount) ==
    IF attemptCount <= 0
    THEN rp.InitialDelay
    ELSE LET delayDuration ==
                 Trunc(rp.InitialDelay * (rp.BackoffFactor[1] * attemptCount),
                       rp.BackoffFactor[2])
         IN  IF delayDuration > rp.MaxDelay THEN rp.MaxDelay ELSE delayDuration

\* ShouldRetry matching the signature anywhere in the message (strings.Contains)
ShouldRetrySubstring(rp, err, attemptCount) ==
    IF IsNil(err) THEN FALSE
    ELSE IF attemptCount >= rp.MaxRetries THEN FALSE
    ELSE \E i \in 1..Len(rp.RetryableErrors) :
            LET retryableError == rp.RetryableErrors[i]
                errorMsg == ErrorMsg(err)
            IN  /\ Len(retryableError) > 0
                /\ \E k \in 0..Len(errorMsg) :
                      /\ k + Len(retryableError) <= Len(errorMsg)
                      /\ SubSeq(errorMsg, k + 1, k + Len(retryableError)) = retryableError

\* ShouldRetry with attemptCount > rp.MaxRetries as its bound: one retry too many
ShouldRetryOneMore(rp, err, attemptCount) ==
    IF IsNil(err) THEN FALSE
    ELSE IF attemptCount > rp.MaxRetries THEN FALSE
    ELSE \E i \in 1..Len(rp.RetryableErrors) :
            LET retryableError == rp.RetryableErrors[i]
                errorMsg == ErrorMsg(err)
            IN  /\ Len(retryableError) > 0
                /\ Len(errorMsg) >= Len(retryableError)
                /\ SubSeq(errorMsg, 1, Len(retryableError)) = retryableError

ShouldRetry(rp, err, attemptCount) ==
    IF IsNil(err) THEN FALSE
    ELSE IF attemptCount >= rp.MaxRetries THEN FALSE
    ELSE \E i \in 1..Len(rp.RetryableErrors) :
            LET retryableError == rp.RetryableErrors[i]
                errorMsg == ErrorMsg(err)
            IN  /\ Len(retryableError) > 0
                /\ Len(errorMsg) >= Len(retryableError)
                /\ SubSeq(errorMsg, 1, Len(retryableError)) = retryableError

\* DefaultRetryPolicy(): durations in milliseconds, BackoffFactor 2.0 = 2/1
DefaultRetryPolicy ==
    [MaxRetries |-> 3, InitialDelay |-> 1000, MaxDelay |-> 30000,
     BackoffFactor |-> <<2, 1>>,
     RetryableErrors |-> <<<<"S">>, <<"D">>, <<"c">>>>]

\* TaskTypeRetryPolicies(): durations in milliseconds
TaskTypeRetryPolicies ==
    [t \in {"email", "image", "database", "report"} |->
        CASE t = "email" ->
                [MaxRetries |-> 5, InitialDelay |-> 2000, MaxDelay |-> 60000,
                 BackoffFactor |-> <<2, 1>>, RetryableErrors |-> <<<<"S">>>>]
          [] t = "image" ->
                [MaxRetries |-> 2, InitialDelay |-> 5000, MaxDelay |-> 30000,
                 BackoffFactor |-> <<3, 2>>, RetryableErrors |-> <<>>]
          [] t = "database" ->
                [MaxRetries |-> 4, InitialDelay |-> 1000, MaxDelay |-> 20000,
                 BackoffFactor |-> <<5, 2>>, RetryableErrors |-> <<<<"D">>, <<"c">>>>]
          [] t = "report" ->
                [MaxRetries |-> 3, InitialDelay |-> 10000, MaxDelay |-> 120000,
                 BackoffFactor |-> <<2, 1>>, RetryableErrors |-> <<<<"I">>>>]]

-----------------------------------------------------------------------------
(* task.go, result.go *)

\* main: taskTypes[(i-1) % len(taskTypes)]
TaskTypeOf(id) ==
    CASE id % 4 = 1 -> "email"
      [] id % 4 = 2 -> "image"
      [] id % 4 = 3 -> "database"
      [] OTHER      -> "report"

\* Task{ID: id, Type: ...}: AttemptCount 0, LastError nil
NewTask(id) ==
    [ID |-> id, Type |-> TaskTypeOf(id), AttemptCount |-> 0, LastError |-> NilErr]

\* the zero value of Task, received from a closed channel
ZeroTask == [ID |-> 0, Type |-> "", AttemptCount |-> 0, LastError |-> NilErr]

\* what a caller-supplied TaskProcessor may return
HandlerOutcomes == {NilErr, Err(MsgSMTP), Err(MsgFormat)}

\* The processors of the model. "any" is an arbitrary TaskProcessor: each call returns
\* one of HandlerOutcomes, or never returns. "failsOnce" is the stub that fails a
\* task's first attempt with the SMTP error and succeeds on every later attempt.
ProcessorOutcomes(processor, task) ==
    IF processor = "failsOnce"
    THEN {IF task.AttemptCount = 0 THEN Err(MsgSMTP) ELSE NilErr}
    ELSE HandlerOutcomes

\* whether a call of the processor may never return
MayNeverReturn(processor) == processor = "any"

-----------------------------------------------------------------------------
(* monitor.go *)

\* capacity of m.updateCh (100 in NewMonitor), scaled down
UpdateChCap == 1
\* number of GetStats calls
MaxSnapshots == 2
\* number of OnTaskResult calls made by callers other than the result loop of main
MaxNotified == 2
\* largest TotalDuration of a result, in milliseconds
MaxLatency == 1

Durations == 0..MaxLatency

RECURSIVE GCD(_, _)
GCD(a, b) == IF b = 0 THEN a ELSE GCD(b, a % b)

\* the quotient n / d (n >= 0, d > 0) as a reduced fraction
Quot(n, d) == <<n \div GCD(n, d), d \div GCD(n, d)>>

\* an exponential moving average with weight 1/2 in place of the running mean
RunningMeanSmoothed(avg, n, timeMs) == Quot(avg[1] + timeMs * avg[2], avg[2] * 2)

\* (avg*float64(n-1) + timeMs) / float64(n)
RunningMean(avg, n, timeMs) == Quot(avg[1] * (n - 1) + timeMs * avg[2], avg[2] * n)

\* the zero value of TaskTypeStats
ZeroTypeStats == [Total |-> 0, Succeeded |-> 0, Failed |-> 0, Retried |-> 0, AvgTime |-> <<0, 1>>]

\* make(map[TaskType]TaskTypeStats)
EmptyMap == [t \in {} |-> ZeroTypeStats]

\* m[k], the zero value when k is absent
MapLoad(m, k) == IF k \in DOMAIN m THEN m[k] ELSE ZeroTypeStats

\* m[k] = v
MapStore(m, k, v) == [x \in DOMAIN m \cup {k} |-> IF x = k THEN v ELSE m[x]]

\* the zero value of PoolStats, with its map at reference ref
ZeroPoolStats(ref) ==
    [TotalTasks |-> 0, CompletedTasks |-> 0, FailedTasks |-> 0,
     QueuedTasks |-> 0, RetryingTasks |-> 0,
     TotalWorkers |-> 0, ActiveWorkers |-> 0, IdleWorkers |-> 0,
     AverageTime |-> <<0, 1>>, MinTime |-> 0, MaxTime |-> 0,
     TaskTypeStats |-> ref]

\* result.WasRetried()
WasRetried(result) == result.AttemptCount > 1

\* a PoolStats value with its map read through the reference
View(st) == [st EXCEPT !.TaskTypeStats = maps[st.TaskTypeStats]]

\* the Monitor as NewMonitor returns it; the result loop of main has no result in hand
NewMonitor ==
    /\ updateCh = <<>>
    /\ maps = <<EmptyMap>>
    /\ stats = ZeroPoolStats(1)
    /\ mutex = "free"
    /\ updateLoop = [pc |-> "off", result |-> <<>>]
    /\ monitorStop = "idle"
    /\ snapshots = <<>>
    /\ consumer = [pc |-> "get", result |-> <<>>]
    /\ notified = 0
    /\ dropped = 0

\* Monitor.Start: go m.updateLoop()
MonitorStart ==
    /\ updateLoop.pc = "off"
    /\ monitorStop = "idle"
    /\ updateLoop' = [updateLoop EXCEPT !.pc = "select"]
    /\ UNCHANGED <<poolVars, probe, updateCh, stats, maps, mutex, monitorStop, snapshots,
                   consumer, notified, dropped>>

\* Monitor.Stop: close(m.stopCh)
MonitorStop ==
    /\ monitorStop = "idle"
    /\ monitorStop' = "wait"
    /\ UNCHANGED <<poolVars, probe, updateCh, stats, maps, mutex, updateLoop, snapshots,
                   consumer, notified, dropped>>

\* Monitor.Stop: m.wg.Wait() returns once updateLoop has returned (or never ran)
MonitorStopReturn ==
    /\ monitorStop = "wait"
    /\ updateLoop.pc \in {"off", "exited"}
    /\ monitorStop' = "returned"
    /\ UNCHANGED <<poolVars, probe, updateCh, stats, maps, mutex, updateLoop, snapshots,
                   consumer, notified, dropped>>

\* the select of OnTaskResult with a send that waits for room instead of the default case
NotifyBlocking(result) ==
    /\ Len(updateCh) < UpdateChCap
    /\ updateCh' = Append(updateCh, result)
    /\ notified' = notified + 1
    /\ UNCHANGED dropped

\* the select of OnTaskResult: enqueue when the inlet has room, otherwise skip
Notify(result) ==
    /\ IF Len(updateCh) < UpdateChCap
       THEN /\ updateCh' = Append(updateCh, result)
            /\ UNCHANGED dropped
       ELSE /\ dropped' = dropped + 1
            /\ UNCHANGED updateCh
    /\ notified' = notified + 1

\* Monitor.OnTaskResult called by any goroutine
OnTaskResult(result) ==
    /\ notified < MaxNotified
    /\ Notify(result)
    /\ UNCHANGED <<poolVars, probe, stats, maps, mutex, updateLoop, monitorStop, snapshots,
                   consumer>>

\* updateLoop: case result := <-m.updateCh
UpdateLoopReceive ==
    /\ updateLoop.pc = "select"
    /\ Len(updateCh) > 0
    /\ updateLoop' = [pc |-> "lock", result |-> Head(updateCh)]
    /\ updateCh' = Tail(updateCh)
    /\ UNCHANGED <<poolVars, probe, stats, maps, mutex, monitorStop, snapshots, consumer,
                   notified, dropped>>

\* updateLoop: case <-m.stopCh: return
UpdateLoopExit ==
    /\ updateLoop.pc = "select"
    /\ monitorStop # "idle"
    /\ updateLoop' = [updateLoop EXCEPT !.pc = "exited"]
    /\ UNCHANGED <<poolVars, probe, updateCh, stats, maps, mutex, monitorStop, snapshots,
                   consumer, notified, dropped>>

\* updateStats: m.mutex.Lock(); m.stats.TotalTasks++
UpdateStatsTotal ==
    /\ updateLoop.pc = "lock"
    /\ mutex = "free"
    /\ mutex' = "W"
    /\ stats' = [stats EXCEPT !.TotalTasks = @ + 1]
    /\ updateLoop' = [updateLoop EXCEPT !.pc = "outcome"]
    /\ UNCHANGED <<poolVars, probe, updateCh, maps, monitorStop, snapshots, consumer,
                   notified, dropped>>

\* the outcome step of updateStats without the else branch: a failure is not counted
WithOutcomeFailureUncounted(st, result) ==
    IF result.Success THEN [st EXCEPT !.CompletedTasks = @ + 1] ELSE st

\* the PoolStats after the outcome counters and the processing-time statistics of
\* updateStats have been applied for result
WithOutcome(st, result) ==
    LET timeMs == result.TotalDuration
        counted == IF result.Success
                   THEN [st EXCEPT !.CompletedTasks = @ + 1]
                   ELSE [st EXCEPT !.FailedTasks = @ + 1]
    IN  IF counted.TotalTasks = 1
        THEN [counted EXCEPT !.MinTime = timeMs, !.MaxTime = timeMs,
                             !.AverageTime = <<timeMs, 1>>]
        ELSE [counted EXCEPT
                !.MinTime = IF timeMs < @ THEN timeMs ELSE @,
                !.MaxTime = IF timeMs > @ THEN timeMs ELSE @,
                !.AverageTime = RunningMean(@, counted.TotalTasks, timeMs)]

\* updateStats: CompletedTasks / FailedTasks, MinTime, MaxTime, AverageTime
UpdateStatsOutcome ==
    /\ updateLoop.pc = "outcome"
    /\ stats' = WithOutcome(stats, updateLoop.result)
    /\ updateLoop' = [updateLoop EXCEPT !.pc = "type"]
    /\ UNCHANGED <<poolVars, probe, updateCh, maps, mutex, monitorStop, snapshots, consumer,
                   notified, dropped>>

\* the TaskTypeStats of result's category after result has been counted
WithResult(typeStats, result) ==
    LET timeMs == result.TotalDuration
        total == typeStats.Total + 1
    IN  [Total |-> total,
         Succeeded |-> typeStats.Succeeded + (IF result.Success THEN 1 ELSE 0),
         Failed |-> typeStats.Failed + (IF result.Success THEN 0 ELSE 1),
         Retried |-> typeStats.Retried + (IF WasRetried(result) THEN 1 ELSE 0),
         AvgTime |-> IF total = 1 THEN <<timeMs, 1>>
                     ELSE RunningMean(typeStats.AvgTime, total, timeMs)]

\* updateStats: the per-category statistics, written back to the map; Unlock
UpdateStatsType ==
    /\ updateLoop.pc = "type"
    /\ LET result == updateLoop.result
           ref == stats.TaskTypeStats
       IN  maps' = [maps EXCEPT ![ref] =
                       MapStore(@, result.TaskType,
                                WithResult(MapLoad(@, result.TaskType), result))]
    /\ mutex' = "free"
    /\ updateLoop' = [pc |-> "select", result |-> <<>>]
    /\ UNCHANGED <<poolVars, probe, updateCh, stats, monitorStop, snapshots, consumer,
                   notified, dropped>>

\* updateLoop: case <-ticker.C: m.updateSystemStats()
UpdateSystemStats ==
    /\ updateLoop.pc = "select"
    /\ mutex = "free"
    /\ stats' = [stats EXCEPT !.TotalWorkers = NumWorkers,
                              !.QueuedTasks = Len(tasks),
                              !.RetryingTasks = Len(retryQueue),
                              !.ActiveWorkers = NumWorkers,
                              !.IdleWorkers = 0]
    /\ UNCHANGED <<poolVars, probe, updateCh, maps, mutex, updateLoop, monitorStop,
                   snapshots, consumer, notified, dropped>>

\* what a caller holds after GetStats: the PoolStats value (stats), whether the caller
\* has written to it since (mutated), and for reference the value as it was returned
\* (returned)
Snapshot(st) ==
    [stats |-> st, mutated |-> FALSE, returned |-> View(stats)]

\* GetStats without the read lock
GetStatsNoLock ==
    /\ Len(snapshots) < MaxSnapshots
    /\ maps' = Append(maps, maps[stats.TaskTypeStats])
    /\ snapshots' = Append(snapshots,
                           Snapshot([stats EXCEPT !.TaskTypeStats = Len(maps) + 1]))
    /\ UNCHANGED <<poolVars, probe, updateCh, stats, mutex, updateLoop, monitorStop,
                   consumer, notified, dropped>>

\* GetStats returning stats := m.stats as it is, the map shared with the live aggregate
GetStatsShallow ==
    /\ Len(snapshots) < MaxSnapshots
    /\ mutex # "W"
    /\ snapshots' = Append(snapshots, Snapshot(stats))
    /\ UNCHANGED <<poolVars, probe, updateCh, stats, maps, mutex, updateLoop, monitorStop,
                   consumer, notified, dropped>>

\* GetStats: under the read lock, copy the struct and copy the map into a fresh one
GetStats ==
    /\ Len(snapshots) < MaxSnapshots
    /\ mutex # "W"
    /\ maps' = Append(maps, maps[stats.TaskTypeStats])
    /\ snapshots' = Append(snapshots,
                           Snapshot([stats EXCEPT !.TaskTypeStats = Len(maps) + 1]))
    /\ UNCHANGED <<poolVars, probe, updateCh, stats, mutex, updateLoop, monitorStop,
                   consumer, notified, dropped>>

\* the caller that holds snapshot i overwrites a field of it and the content of its map
MutateSnapshot(i) ==
    /\ i \in 1..Len(snapshots)
    /\ ~snapshots[i].mutated
    /\ snapshots' = [snapshots EXCEPT ![i].mutated = TRUE,
                                      ![i].stats.TotalTasks = 0 - 1]
    /\ maps' = [maps EXCEPT ![snapshots[i].stats.TaskTypeStats] =
                   [t \in {"report"} |-> [ZeroTypeStats EXCEPT !.Total = 0 - 1]]]
    /\ UNCHANGED <<poolVars, probe, updateCh, stats, mutex, updateLoop, monitorStop,
                   consumer, notified, dropped>>

-----------------------------------------------------------------------------
(* worker_pool.go: configuration *)

\* a policy installed with SetRetryPolicy
PoolPolicy(maxRetries, sigs) ==
    [MaxRetries |-> maxRetries, InitialDelay |-> 1, MaxDelay |-> 3,
     BackoffFactor |-> <<2, 1>>, RetryableErrors |-> sigs]

\* The pools the model starts from: NewWorkerPool followed by RegisterProcessor and
\* SetRetryPolicy calls made before Start (SetRetryPolicy overwrites entries of the
\* seeded table, so all four seeded task types keep an entry).
PoolConfigs ==
    { [processors    |-> [t \in {"email", "image", "database", "report"} |-> "any"],
       retryPolicies |-> [t \in DOMAIN TaskTypeRetryPolicies |->
                            CASE t = "email" -> PoolPolicy(2, <<SigSMTP>>)
                              [] OTHER       -> PoolPolicy(1, <<SigSMTP>>)]],
      [processors    |-> [t \in {"email", "database"} |-> "any"],
       retryPolicies |-> [t \in DOMAIN TaskTypeRetryPolicies |->
                            CASE t = "image" -> PoolPolicy(1, <<SigNoProcessor>>)
                              [] OTHER       -> PoolPolicy(1, <<SigSMTP>>)]],
      [processors    |-> [t \in {"email", "image", "database", "report"} |-> "failsOnce"],
       retryPolicies |-> [t \in DOMAIN TaskTypeRetryPolicies |->
                            PoolPolicy(2, <<SigSMTP>>)] ] }

\* policy, exists := wp.retryPolicies[task.Type]; if !exists { policy = DefaultRetryPolicy() }
PolicyFor(type) ==
    IF type \in DOMAIN retryPolicies THEN retryPolicies[type] ELSE DefaultRetryPolicy

\* the pool as NewWorkerPool leaves it
NewWorkerPool == [processors |-> <<>>, retryPolicies |-> TaskTypeRetryPolicies]

\* the WorkerPool as configured by c, not yet started; nothing submitted
InitPool(c) ==
    /\ tasks = <<>>
    /\ retryQueue = <<>>
    /\ results = <<>>
    /\ closed = {}
    /\ processors = c.processors
    /\ retryPolicies = c.retryPolicies
    /\ started = FALSE
    /\ worker = [w \in Workers |-> [pc |-> "off", task |-> ZeroTask, err |-> NilErr,
                                    isFinal |-> FALSE]]
    /\ dispatcher = [pc |-> "off", task |-> ZeroTask, delay |-> 0]
    /\ stop = "idle"
    /\ submitted = 0
    /\ panicked = FALSE
    /\ invoked = [id \in 0..NumTasks |-> 0]
    /\ emitted = [id \in 0..NumTasks |-> <<>>]
    /\ setPolicy = [pc |-> "idle", type |-> "", policy |-> <<>>, calls |-> 0]

Init ==
    /\ \E c \in PoolConfigs : InitPool(c)
    /\ probe = <<>>
    /\ NewMonitor

-----------------------------------------------------------------------------
(* worker_pool.go: Start, AddTask, GetResult *)

Start ==
    /\ ~panicked
    /\ ~started
    /\ stop = "idle"
    /\ started' = TRUE
    /\ worker' = [w \in Workers |-> [worker[w] EXCEPT !.pc = "idle"]]
    /\ dispatcher' = [dispatcher EXCEPT !.pc = "select"]
    /\ UNCHANGED <<tasks, retryQueue, results, closed, processors, retryPolicies, stop,
                   submitted, panicked, invoked, emitted, probe, monVars, setPolicy>>

\* AddTask with a non-blocking send (select with a default case): a task offered to a
\* full queue is dropped and the call returns
AddTaskDropWhenFull ==
    /\ ~panicked
    /\ submitted < NumTasks
    /\ IF "tasks" \in closed
       THEN /\ panicked' = TRUE
            /\ UNCHANGED <<tasks, submitted>>
       ELSE /\ tasks' = IF Len(tasks) < TasksCap
                        THEN Append(tasks, NewTask(submitted + 1))
                        ELSE tasks
            /\ submitted' = submitted + 1
            /\ UNCHANGED panicked
    /\ UNCHANGED <<retryQueue, results, closed, processors, retryPolicies, started,
                   worker, dispatcher, stop, invoked, emitted, probe, monVars, setPolicy>>

\* AddTask that recovers from the panic of a send on the closed queue and returns
AddTaskRecover ==
    /\ ~panicked
    /\ submitted < NumTasks
    /\ IF "tasks" \in closed
       THEN /\ submitted' = submitted + 1
            /\ UNCHANGED <<tasks, panicked>>
       ELSE /\ Len(tasks) < TasksCap
            /\ tasks' = Append(tasks, NewTask(submitted + 1))
            /\ submitted' = submitted + 1
            /\ UNCHANGED panicked
    /\ UNCHANGED <<retryQueue, results, closed, processors, retryPolicies, started,
                   worker, dispatcher, stop, invoked, emitted, probe, monVars, setPolicy>>

\* wp.tasks <- task: blocks while the buffer is full, panics once the channel is closed
AddTask ==
    /\ ~panicked
    /\ submitted < NumTasks
    /\ IF "tasks" \in closed
       THEN /\ panicked' = TRUE
            /\ UNCHANGED <<tasks, submitted>>
       ELSE /\ Len(tasks) < TasksCap
            /\ tasks' = Append(tasks, NewTask(submitted + 1))
            /\ submitted' = submitted + 1
            /\ UNCHANGED panicked
    /\ UNCHANGED <<retryQueue, results, closed, processors, retryPolicies, started,
                   worker, dispatcher, stop, invoked, emitted, probe, monVars, setPolicy>>

\* <-wp.results by the consumer
GetResult ==
    /\ ~panicked
    /\ Len(results) > 0
    /\ results' = Tail(results)
    /\ UNCHANGED <<tasks, retryQueue, closed, processors, retryPolicies, started,
                   worker, dispatcher, stop, submitted, panicked, invoked, emitted, probe, monVars, setPolicy>>

-----------------------------------------------------------------------------
(* worker_pool.go: worker, executeTask, sendResult *)

\* for task := range wp.tasks: receive the next task
WorkerDequeue(w) ==
    /\ ~panicked
    /\ worker[w].pc = "idle"
    /\ Len(tasks) > 0
    /\ worker' = [worker EXCEPT ![w] = [pc |-> "run", task |-> Head(tasks),
                                        err |-> NilErr, isFinal |-> FALSE]]
    /\ tasks' = Tail(tasks)
    /\ UNCHANGED <<retryQueue, results, closed, processors, retryPolicies, started,
                   dispatcher, stop, submitted, panicked, invoked, emitted, probe, monVars, setPolicy>>

\* for task := range wp.tasks: the channel is closed and drained, the worker returns
WorkerExit(w) ==
    /\ ~panicked
    /\ worker[w].pc = "idle"
    /\ Len(tasks) = 0
    /\ "tasks" \in closed
    /\ worker' = [worker EXCEPT ![w].pc = "exited"]
    /\ UNCHANGED <<tasks, retryQueue, results, closed, processors, retryPolicies, started,
                   dispatcher, stop, submitted, panicked, invoked, emitted, probe, monVars, setPolicy>>

\* sendResult with AttemptCount: task.AttemptCount (the retry count, not the attempts)
MakeResultRetryCount(task, err, isFinal) ==
    [TaskID |-> task.ID, TaskType |-> task.Type, Success |-> IsNil(err),
     Error |-> err, AttemptCount |-> task.AttemptCount, IsFinal |-> isFinal]

\* TaskResult{...} of sendResult
MakeResult(task, err, isFinal) ==
    [TaskID |-> task.ID, TaskType |-> task.Type, Success |-> IsNil(err),
     Error |-> err, AttemptCount |-> task.AttemptCount + 1, IsFinal |-> isFinal]

\* HandleOutcome with a blocking send `wp.retryQueue <- task` (no default case)
HandleOutcomeBlocking(w, task, err) ==
    LET policy == PolicyFor(task.Type)
        retried == [task EXCEPT !.AttemptCount = @ + 1, !.LastError = err]
    IN
    IF ~IsNil(err) /\ ShouldRetry(policy, err, task.AttemptCount)
    THEN IF "retryQueue" \in closed
         THEN /\ panicked' = TRUE
              /\ UNCHANGED <<retryQueue, worker>>
         ELSE /\ Len(retryQueue) < RetryQueueCap
              /\ retryQueue' = Append(retryQueue, retried)
              /\ worker' = [worker EXCEPT ![w] = [pc |-> "idle", task |-> ZeroTask,
                                                  err |-> NilErr, isFinal |-> FALSE]]
              /\ UNCHANGED panicked
    ELSE /\ worker' = [worker EXCEPT ![w] = [pc |-> "send", task |-> task,
                                             err |-> err, isFinal |-> TRUE]]
         /\ UNCHANGED <<retryQueue, panicked>>

\* HandleOutcome without the `return` after the select: a task sent to the Retry Queue
\* also falls through to the final sendResult
HandleOutcomeNoReturn(w, task, err) ==
    LET policy == PolicyFor(task.Type)
        retried == [task EXCEPT !.AttemptCount = @ + 1, !.LastError = err]
    IN
    IF ~IsNil(err) /\ ShouldRetry(policy, err, task.AttemptCount)
    THEN IF "retryQueue" \in closed
         THEN /\ panicked' = TRUE
              /\ UNCHANGED <<retryQueue, worker>>
         ELSE IF Len(retryQueue) < RetryQueueCap
         THEN /\ retryQueue' = Append(retryQueue, retried)
              /\ worker' = [worker EXCEPT ![w] = [pc |-> "send", task |-> retried,
                                                  err |-> err, isFinal |-> TRUE]]
              /\ UNCHANGED panicked
         ELSE /\ worker' = [worker EXCEPT ![w] = [pc |-> "send", task |-> retried,
                                                  err |-> err, isFinal |-> FALSE]]
              /\ UNCHANGED <<retryQueue, panicked>>
    ELSE /\ worker' = [worker EXCEPT ![w] = [pc |-> "send", task |-> task,
                                             err |-> err, isFinal |-> TRUE]]
         /\ UNCHANGED <<retryQueue, panicked>>

\* executeTask after the handler has returned err: a retry goes to wp.retryQueue with a
\* non-blocking send (a full queue falls through to sendResult with isFinal false),
\* everything else goes on to sendResult with isFinal true
HandleOutcome(w, task, err) ==
    LET policy == PolicyFor(task.Type)
        retried == [task EXCEPT !.AttemptCount = @ + 1, !.LastError = err]
    IN
    IF ~IsNil(err) /\ ShouldRetry(policy, err, task.AttemptCount)
    THEN IF "retryQueue" \in closed
         THEN /\ panicked' = TRUE
              /\ UNCHANGED <<retryQueue, worker>>
         ELSE IF Len(retryQueue) < RetryQueueCap
         THEN /\ retryQueue' = Append(retryQueue, retried)
              /\ worker' = [worker EXCEPT ![w] = [pc |-> "idle", task |-> ZeroTask,
                                                  err |-> NilErr, isFinal |-> FALSE]]
              /\ UNCHANGED panicked
         ELSE /\ worker' = [worker EXCEPT ![w] = [pc |-> "send", task |-> retried,
                                                  err |-> err, isFinal |-> FALSE]]
              /\ UNCHANGED <<retryQueue, panicked>>
    ELSE /\ worker' = [worker EXCEPT ![w] = [pc |-> "send", task |-> task,
                                             err |-> err, isFinal |-> TRUE]]
         /\ UNCHANGED <<retryQueue, panicked>>

\* executeTask up to its channel operation: look the processor up, call it (or make
\* the "no processor registered" error), then handle the outcome
WorkerExecute(w) ==
    /\ ~panicked
    /\ worker[w].pc = "run"
    /\ LET task == worker[w].task IN
       IF task.Type \notin DOMAIN processors
       THEN /\ HandleOutcome(w, task, Err(MsgNoProcessor))
            /\ UNCHANGED invoked
       ELSE /\ \E err \in ProcessorOutcomes(processors[task.Type], task) :
                  HandleOutcome(w, task, err)
            /\ invoked' = [invoked EXCEPT ![task.ID] = @ + 1]
    /\ UNCHANGED <<tasks, results, closed, processors, retryPolicies, started,
                   dispatcher, stop, submitted, emitted, probe, monVars, setPolicy>>

\* executeTask, err = processor(ctx, task) with a processor that never returns: the
\* call is synchronous, so the executor stays inside it
WorkerHang(w) ==
    /\ ~panicked
    /\ worker[w].pc = "run"
    /\ worker[w].task.Type \in DOMAIN processors
    /\ MayNeverReturn(processors[worker[w].task.Type])
    /\ worker' = [worker EXCEPT ![w].pc = "hung"]
    /\ invoked' = [invoked EXCEPT ![worker[w].task.ID] = @ + 1]
    /\ UNCHANGED <<tasks, retryQueue, results, closed, processors, retryPolicies, started,
                   dispatcher, stop, submitted, panicked, emitted, probe, monVars, setPolicy>>

\* a worker that returns from its loop after sending the result of a failed task
WorkerSendResultExitOnFailure(w) ==
    /\ ~panicked
    /\ worker[w].pc = "send"
    /\ LET result == MakeResult(worker[w].task, worker[w].err, worker[w].isFinal) IN
       IF "results" \in closed
       THEN /\ panicked' = TRUE
            /\ UNCHANGED <<results, worker, emitted>>
       ELSE /\ Len(results) < ResultsCap
            /\ results' = Append(results, result)
            /\ emitted' = [emitted EXCEPT ![result.TaskID] = Append(@, result)]
            /\ worker' = [worker EXCEPT ![w] = [pc |-> IF result.Success THEN "idle"
                                                       ELSE "exited",
                                                task |-> ZeroTask,
                                                err |-> NilErr, isFinal |-> FALSE]]
            /\ UNCHANGED panicked
    /\ UNCHANGED <<tasks, retryQueue, closed, processors, retryPolicies, started,
                   dispatcher, stop, submitted, invoked, probe, monVars, setPolicy>>

\* sendResult: wp.results <- result
WorkerSendResult(w) ==
    /\ ~panicked
    /\ worker[w].pc = "send"
    /\ LET result == MakeResult(worker[w].task, worker[w].err, worker[w].isFinal) IN
       IF "results" \in closed
       THEN /\ panicked' = TRUE
            /\ UNCHANGED <<results, worker, emitted>>
       ELSE /\ Len(results) < ResultsCap
            /\ results' = Append(results, result)
            /\ emitted' = [emitted EXCEPT ![result.TaskID] = Append(@, result)]
            /\ worker' = [worker EXCEPT ![w] = [pc |-> "idle", task |-> ZeroTask,
                                                err |-> NilErr, isFinal |-> FALSE]]
            /\ UNCHANGED panicked
    /\ UNCHANGED <<tasks, retryQueue, closed, processors, retryPolicies, started,
                   dispatcher, stop, submitted, invoked, probe, monVars, setPolicy>>

-----------------------------------------------------------------------------
(* worker_pool.go: retryHandler *)

\* DispatcherReceive computing the delay for the attempt count after the coming attempt
DispatcherReceiveNextDelay ==
    /\ ~panicked
    /\ dispatcher.pc = "select"
    /\ \/ /\ Len(retryQueue) > 0
          /\ dispatcher' = [pc |-> "sleep", task |-> Head(retryQueue),
                            delay |-> CalculateRetryDelay(PolicyFor(Head(retryQueue).Type),
                                                          Head(retryQueue).AttemptCount + 1)]
          /\ retryQueue' = Tail(retryQueue)
       \/ /\ Len(retryQueue) = 0
          /\ "retryQueue" \in closed
          /\ dispatcher' = [pc |-> "sleep", task |-> ZeroTask,
                            delay |-> CalculateRetryDelay(PolicyFor(ZeroTask.Type),
                                                          ZeroTask.AttemptCount + 1)]
          /\ UNCHANGED retryQueue
    /\ UNCHANGED <<tasks, results, closed, processors, retryPolicies, started,
                   worker, stop, submitted, panicked, invoked, emitted, probe, monVars, setPolicy>>

\* outer select, case task := <-wp.retryQueue: a buffered task, or the zero Task once
\* the channel is closed and drained; then the delay is computed
DispatcherReceive ==
    /\ ~panicked
    /\ dispatcher.pc = "select"
    /\ \/ /\ Len(retryQueue) > 0
          /\ dispatcher' = [pc |-> "sleep", task |-> Head(retryQueue),
                            delay |-> CalculateRetryDelay(PolicyFor(Head(retryQueue).Type),
                                                          Head(retryQueue).AttemptCount)]
          /\ retryQueue' = Tail(retryQueue)
       \/ /\ Len(retryQueue) = 0
          /\ "retryQueue" \in closed
          /\ dispatcher' = [pc |-> "sleep", task |-> ZeroTask,
                            delay |-> CalculateRetryDelay(PolicyFor(ZeroTask.Type),
                                                          ZeroTask.AttemptCount)]
          /\ UNCHANGED retryQueue
    /\ UNCHANGED <<tasks, results, closed, processors, retryPolicies, started,
                   worker, stop, submitted, panicked, invoked, emitted, probe, monVars, setPolicy>>

\* outer select, case <-wp.shutdownCh
DispatcherShutdown ==
    /\ ~panicked
    /\ dispatcher.pc = "select"
    /\ "shutdownCh" \in closed
    /\ dispatcher' = [pc |-> "exited", task |-> ZeroTask, delay |-> 0]
    /\ UNCHANGED <<tasks, retryQueue, results, closed, processors, retryPolicies, started,
                   worker, stop, submitted, panicked, invoked, emitted, probe, monVars, setPolicy>>

\* time.Sleep(delay) returns
DispatcherWake ==
    /\ ~panicked
    /\ dispatcher.pc = "sleep"
    /\ dispatcher' = [dispatcher EXCEPT !.pc = "resubmit"]
    /\ UNCHANGED <<tasks, retryQueue, results, closed, processors, retryPolicies, started,
                   worker, stop, submitted, panicked, invoked, emitted, probe, monVars, setPolicy>>

\* DispatcherResubmit losing the held task instead of sending it to the Task Queue
DispatcherResubmitDrop ==
    /\ ~panicked
    /\ dispatcher.pc = "resubmit"
    /\ dispatcher' = [pc |-> "select", task |-> ZeroTask, delay |-> 0]
    /\ UNCHANGED <<tasks, panicked, retryQueue, results, closed, processors, retryPolicies,
                   started, worker, stop, submitted, invoked, emitted, probe, monVars,
                   setPolicy>>

\* inner select, case wp.tasks <- task: ready when the buffer has room, and ready
\* (panicking) when the channel is closed
DispatcherResubmit ==
    /\ ~panicked
    /\ dispatcher.pc = "resubmit"
    /\ IF "tasks" \in closed
       THEN /\ panicked' = TRUE
            /\ UNCHANGED <<tasks, dispatcher>>
       ELSE /\ Len(tasks) < TasksCap
            /\ tasks' = Append(tasks, dispatcher.task)
            /\ dispatcher' = [pc |-> "select", task |-> ZeroTask, delay |-> 0]
            /\ UNCHANGED panicked
    /\ UNCHANGED <<retryQueue, results, closed, processors, retryPolicies, started,
                   worker, stop, submitted, invoked, emitted, probe, monVars, setPolicy>>

\* inner select, case <-wp.shutdownCh: return, dropping the held task
DispatcherAbandon ==
    /\ ~panicked
    /\ dispatcher.pc = "resubmit"
    /\ "shutdownCh" \in closed
    /\ dispatcher' = [dispatcher EXCEPT !.pc = "exited"]
    /\ UNCHANGED <<tasks, retryQueue, results, closed, processors, retryPolicies, started,
                   worker, stop, submitted, panicked, invoked, emitted, probe, monVars, setPolicy>>

-----------------------------------------------------------------------------
(* worker_pool.go: Stop *)

\* close(wp.shutdownCh)
StopSignal ==
    /\ ~panicked
    /\ started
    /\ stop = "idle"
    /\ closed' = closed \cup {"shutdownCh"}
    /\ stop' = "closeTasks"
    /\ UNCHANGED <<tasks, retryQueue, results, processors, retryPolicies, started,
                   worker, dispatcher, submitted, panicked, invoked, emitted, probe, monVars, setPolicy>>

\* close(wp.tasks)
StopCloseTasks ==
    /\ ~panicked
    /\ stop = "closeTasks"
    /\ closed' = closed \cup {"tasks"}
    /\ stop' = "waitWorkers"
    /\ UNCHANGED <<tasks, retryQueue, results, processors, retryPolicies, started,
                   worker, dispatcher, submitted, panicked, invoked, emitted, probe, monVars, setPolicy>>

\* Stop without wp.wg.Wait(): the Retry Queue is closed while executors still run
StopCloseRetryQueueNoWait ==
    /\ ~panicked
    /\ stop = "waitWorkers"
    /\ closed' = closed \cup {"retryQueue"}
    /\ stop' = "waitRetryHandler"
    /\ UNCHANGED <<tasks, retryQueue, results, processors, retryPolicies, started,
                   worker, dispatcher, submitted, panicked, invoked, emitted, probe, monVars, setPolicy>>

\* wp.wg.Wait() returns, then close(wp.retryQueue)
StopCloseRetryQueue ==
    /\ ~panicked
    /\ stop = "waitWorkers"
    /\ \A w \in Workers : worker[w].pc = "exited"
    /\ closed' = closed \cup {"retryQueue"}
    /\ stop' = "waitRetryHandler"
    /\ UNCHANGED <<tasks, retryQueue, results, processors, retryPolicies, started,
                   worker, dispatcher, submitted, panicked, invoked, emitted, probe, monVars, setPolicy>>

\* Stop without wp.retryWg.Wait(): Stop returns while the dispatcher still runs
StopCloseResultsNoWait ==
    /\ ~panicked
    /\ stop = "waitRetryHandler"
    /\ closed' = closed \cup {"results"}
    /\ stop' = "returned"
    /\ UNCHANGED <<tasks, retryQueue, results, processors, retryPolicies, started,
                   worker, dispatcher, submitted, panicked, invoked, emitted, probe, monVars, setPolicy>>

\* wp.retryWg.Wait() returns, then close(wp.results); Stop returns
StopCloseResults ==
    /\ ~panicked
    /\ stop = "waitRetryHandler"
    /\ dispatcher.pc = "exited"
    /\ closed' = closed \cup {"results"}
    /\ stop' = "returned"
    /\ UNCHANGED <<tasks, retryQueue, results, processors, retryPolicies, started,
                   worker, dispatcher, submitted, panicked, invoked, emitted, probe, monVars, setPolicy>>

-----------------------------------------------------------------------------

Next ==
    \/ Start
    \/ AddTask
    \/ GetResult
    \/ \E w \in Workers : WorkerDequeue(w)
    \/ \E w \in Workers : WorkerExit(w)
    \/ \E w \in Workers : WorkerExecute(w)
    \/ \E w \in Workers : WorkerHang(w)
    \/ \E w \in Workers : WorkerSendResult(w)
    \/ DispatcherReceive
    \/ DispatcherShutdown
    \/ DispatcherWake
    \/ DispatcherResubmit
    \/ DispatcherAbandon
    \/ StopSignal
    \/ StopCloseTasks
    \/ StopCloseRetryQueue
    \/ StopCloseResults

Spec == Init /\ [][Next]_vars

-----------------------------------------------------------------------------
(* worker_pool.go: SetRetryPolicy called while the pool runs *)

\* number of SetRetryPolicy calls made after construction
MaxSetCalls == 1

\* the policies these calls install
InstalledPolicies == {PoolPolicy(0, <<SigSMTP>>), PoolPolicy(2, <<SigSMTP, SigNoProcessor>>)}

\* SetRetryPolicy(type, policy): the map assignment wp.retryPolicies[type] = policy
\* begins; the map has no lock and the assignment is not atomic
SetRetryPolicyBegin(type, policy) ==
    /\ ~panicked
    /\ setPolicy.pc = "idle"
    /\ setPolicy.calls < MaxSetCalls
    /\ setPolicy' = [setPolicy EXCEPT !.pc = "writing", !.type = type, !.policy = policy]
    /\ UNCHANGED <<tasks, retryQueue, results, closed, processors, retryPolicies, started,
                   worker, dispatcher, stop, submitted, panicked, invoked, emitted, probe,
                   monVars>>

\* SetRetryPolicy: the map assignment completes and the call returns
SetRetryPolicyEnd ==
    /\ ~panicked
    /\ setPolicy.pc = "writing"
    /\ retryPolicies' = [t \in DOMAIN retryPolicies \cup {setPolicy.type} |->
                           IF t = setPolicy.type THEN setPolicy.policy ELSE retryPolicies[t]]
    /\ setPolicy' = [pc |-> "idle", type |-> "", policy |-> <<>>,
                     calls |-> setPolicy.calls + 1]
    /\ UNCHANGED <<tasks, retryQueue, results, closed, processors, started,
                   worker, dispatcher, stop, submitted, panicked, invoked, emitted, probe,
                   monVars>>

\* executeTask reads wp.retryPolicies[task.Type] for a failed attempt while the map is
\* being assigned to: a data race on a Go map.  Besides reading the old entry (as
\* WorkerExecute does) the runtime can abort the process with "fatal error: concurrent
\* map read and map write"
WorkerReadDuringWrite(w) ==
    /\ ~panicked
    /\ setPolicy.pc = "writing"
    /\ worker[w].pc = "run"
    /\ \/ worker[w].task.Type \notin DOMAIN processors
       \/ /\ worker[w].task.Type \in DOMAIN processors
          /\ \E err \in ProcessorOutcomes(processors[worker[w].task.Type], worker[w].task) :
                ~IsNil(err)
    /\ panicked' = TRUE
    /\ UNCHANGED <<tasks, retryQueue, results, closed, processors, retryPolicies, started,
                   worker, dispatcher, stop, submitted, invoked, emitted, probe, monVars,
                   setPolicy>>

\* retryHandler reads wp.retryPolicies[task.Type] for a popped task while the map is
\* being assigned to: the same data race
DispatcherReadDuringWrite ==
    /\ ~panicked
    /\ setPolicy.pc = "writing"
    /\ dispatcher.pc = "select"
    /\ Len(retryQueue) > 0
    /\ panicked' = TRUE
    /\ UNCHANGED <<tasks, retryQueue, results, closed, processors, retryPolicies, started,
                   worker, dispatcher, stop, submitted, invoked, emitted, probe, monVars,
                   setPolicy>>

\* a running pool (Stop is not called) on which SetRetryPolicy is called
NextSetPolicy ==
    \/ Start
    \/ AddTask
    \/ GetResult
    \/ \E w \in Workers : WorkerDequeue(w)
    \/ \E w \in Workers : WorkerExecute(w)
    \/ \E w \in Workers : WorkerSendResult(w)
    \/ DispatcherReceive
    \/ DispatcherWake
    \/ DispatcherResubmit
    \/ \E type \in {"email", "image"}, policy \in InstalledPolicies :
          SetRetryPolicyBegin(type, policy)
    \/ SetRetryPolicyEnd
    \/ \E w \in Workers : WorkerReadDuringWrite(w)
    \/ DispatcherReadDuringWrite

SpecSetPolicy == Init /\ [][NextSetPolicy]_vars

-----------------------------------------------------------------------------
(* The pool under the scheduler: every goroutine that can take a step takes one *)

\* the steps of the retryHandler goroutine
DispatcherStep ==
    \/ DispatcherReceive
    \/ DispatcherShutdown
    \/ DispatcherWake
    \/ DispatcherResubmit
    \/ DispatcherAbandon

\* the steps of the caller of Stop after close(wp.shutdownCh)
StopStep ==
    \/ StopCloseTasks
    \/ StopCloseRetryQueue
    \/ StopCloseResults

\* the steps of executor w when its handlers always return
ReturningWorkerStep(w) ==
    \/ WorkerDequeue(w)
    \/ WorkerExit(w)
    \/ WorkerExecute(w)
    \/ WorkerSendResult(w)

\* a pool whose handlers always return, whose producer stops submitting before Stop
\* is called, and whose consumer keeps pulling from the Result Channel
NextStop ==
    \/ Start
    \/ (stop = "idle" /\ AddTask)
    \/ GetResult
    \/ \E w \in Workers : ReturningWorkerStep(w)
    \/ DispatcherStep
    \/ StopSignal
    \/ StopStep

\* the Go scheduler runs every runnable goroutine; time.Sleep returns
Scheduling ==
    /\ \A w \in Workers : WF_vars(ReturningWorkerStep(w))
    /\ WF_vars(DispatcherStep)
    /\ WF_vars(StopStep)
    /\ WF_vars(GetResult)

SpecStop == Init /\ [][NextStop]_vars /\ Scheduling

\* the steps of executor w while nothing closes the Task Queue
RunningWorkerStep(w) ==
    \/ WorkerDequeue(w)
    \/ WorkerExecute(w)
    \/ WorkerSendResult(w)

\* the steps of the dispatcher while nothing closes shutdownCh
RunningDispatcherStep ==
    \/ DispatcherReceive
    \/ DispatcherWake
    \/ DispatcherResubmit

\* a pool on which Stop is never called, whose handlers always return and whose
\* consumer keeps pulling from the Result Channel
NextRunning ==
    \/ Start
    \/ AddTask
    \/ GetResult
    \/ \E w \in Workers : RunningWorkerStep(w)
    \/ RunningDispatcherStep

\* the Go scheduler runs every runnable goroutine; time.Sleep returns
SchedulingRunning ==
    /\ \A w \in Workers : WF_vars(RunningWorkerStep(w))
    /\ WF_vars(RunningDispatcherStep)
    /\ WF_vars(GetResult)

SpecRunning == Init /\ [][NextRunning]_vars /\ SchedulingRunning

-----------------------------------------------------------------------------
(* The monitor on its own, and the pool with the result loop of main and the monitor *)

\* the TaskResult with its TotalDuration (time.Since(task.CreatedAt), a clock reading)
WithDuration(result, d) ==
    [TaskID |-> result.TaskID, TaskType |-> result.TaskType, Success |-> result.Success,
     Error |-> result.Error, AttemptCount |-> result.AttemptCount,
     IsFinal |-> result.IsFinal, TotalDuration |-> d]

\* the TaskResult of a task of category type after a retries, with outcome err
ResultOf(type, a, err, d) ==
    WithDuration(MakeResult([ZeroTask EXCEPT !.ID = 1, !.Type = type, !.AttemptCount = a],
                            err, TRUE), d)

\* the results callers pass to OnTaskResult: successes and failures of two categories,
\* first attempts and retried ones, fastest and slowest
MonitorResults ==
    {ResultOf("email", 0, NilErr, 0),
     ResultOf("email", 1, Err(MsgSMTP), MaxLatency),
     ResultOf("image", 1, NilErr, MaxLatency),
     ResultOf("image", 0, Err(MsgFormat), 0)}

InitMonitor ==
    /\ InitPool(NewWorkerPool)
    /\ probe = <<>>
    /\ NewMonitor

NextMonitor ==
    \/ MonitorStart
    \/ MonitorStop
    \/ MonitorStopReturn
    \/ \E result \in MonitorResults : OnTaskResult(result)
    \/ UpdateLoopReceive
    \/ UpdateLoopExit
    \/ UpdateStatsTotal
    \/ UpdateStatsOutcome
    \/ UpdateStatsType
    \/ UpdateSystemStats
    \/ GetStats
    \/ \E i \in 1..MaxSnapshots : MutateSnapshot(i)

SpecMonitor == InitMonitor /\ [][NextMonitor]_vars

\* main: result := pool.GetResult(); the pool keeps no clock, so the TotalDuration the
\* result carries is any of Durations
ConsumerGetResult ==
    /\ ~panicked
    /\ consumer.pc = "get"
    /\ Len(results) > 0
    /\ \E d \in Durations :
          consumer' = [pc |-> "notify", result |-> WithDuration(Head(results), d)]
    /\ results' = Tail(results)
    /\ UNCHANGED <<tasks, retryQueue, closed, processors, retryPolicies, started,
                   worker, dispatcher, stop, submitted, panicked, invoked, emitted, probe,
                   updateCh, stats, maps, mutex, updateLoop, monitorStop, snapshots,
                   notified, dropped, setPolicy>>

\* main: monitor.OnTaskResult(result)
ConsumerNotify ==
    /\ ~panicked
    /\ consumer.pc = "notify"
    /\ Notify(consumer.result)
    /\ consumer' = [pc |-> "get", result |-> <<>>]
    /\ UNCHANGED <<poolVars, probe, stats, maps, mutex, updateLoop, monitorStop, snapshots>>

\* a running pool (Stop is not called) whose results main forwards to a running
\* monitor.  The ticker case of updateLoop is exercised by NextMonitor: it writes only
\* the worker and queue-length fields of m.stats, which no step reads.
NextMonitored ==
    \/ Start
    \/ AddTask
    \/ \E w \in Workers : WorkerDequeue(w)
    \/ \E w \in Workers : WorkerExecute(w)
    \/ \E w \in Workers : WorkerHang(w)
    \/ \E w \in Workers : WorkerSendResult(w)
    \/ DispatcherReceive
    \/ DispatcherWake
    \/ DispatcherResubmit
    \/ ConsumerGetResult
    \/ ConsumerNotify
    \/ MonitorStart
    \/ UpdateLoopReceive
    \/ UpdateStatsTotal
    \/ UpdateStatsOutcome
    \/ UpdateStatsType

SpecMonitored == Init /\ [][NextMonitored]_vars

-----------------------------------------------------------------------------
(* Properties of the pool *)

IDsIn(queue) == {queue[i].ID : i \in 1..Len(queue)}
Range(seq) == {seq[i] : i \in 1..Len(seq)}

\* the places that hold task id: the Task Queue, an executor, the Retry Queue, the dispatcher
HeldInTasks(id) == id \in IDsIn(tasks)
HeldInRetryQueue(id) == id \in IDsIn(retryQueue)
HeldByWorker(id) ==
    \E w \in Workers : worker[w].pc \in {"run", "hung", "send"} /\ worker[w].task.ID = id
HeldByDispatcher(id) == dispatcher.pc \in {"sleep", "resubmit"} /\ dispatcher.task.ID = id
\* task id can still be attempted: it waits in a queue or with the dispatcher, or an
\* executor is about to call its handler
Pending(id) ==
    \/ HeldInTasks(id)
    \/ HeldInRetryQueue(id)
    \/ HeldByDispatcher(id)
    \/ \E w \in Workers : worker[w].pc = "run" /\ worker[w].task.ID = id

\* C1: for every task that reaches the Result Channel, the AttemptCount recorded in
\* its TaskResult equals the number of times the handler was invoked for that task, on
\* every path that emits a result.
C1_AttemptCountIsInvocations ==
    \A id \in TaskIDs : \A r \in Range(emitted[id]) : r.AttemptCount = invoked[id]

\* C2: whenever Stop() has returned, the Task Queue, the Retry Queue and the Result
\* Channel are closed and every executor and the retry dispatcher have exited.
C2_StoppedMeansClosedAndExited ==
    stop = "returned" =>
        /\ {"tasks", "retryQueue", "results"} \subseteq closed
        /\ \A w \in Workers : worker[w].pc = "exited"
        /\ dispatcher.pc = "exited"

\* Stop() has returned although, when it ran, the dispatcher was holding a task and
\* another task was still waiting in the Retry Queue.
C2_Witness ==
    /\ stop = "returned"
    /\ dispatcher.task.ID \in TaskIDs
    /\ Len(retryQueue) > 0

\* C3: once Stop() has signalled shutdown, the dispatcher never completes a send of a
\* task to the Task Queue (it exits without resubmitting).
C3_NoResubmitAfterShutdown ==
    [][~ /\ "shutdownCh" \in closed
         /\ dispatcher.pc = "resubmit"
         /\ dispatcher'.pc = "select"]_vars

\* C4: Stop() closes in order: the shutdown signal first, then the Task Queue; the
\* Retry Queue only after every executor has exited; the Result Channel only after the
\* dispatcher has exited.
C4_StopOrder ==
    /\ "tasks" \in closed => "shutdownCh" \in closed
    /\ "retryQueue" \in closed =>
          /\ "tasks" \in closed
          /\ \A w \in Workers : worker[w].pc = "exited"
    /\ "results" \in closed =>
          /\ "retryQueue" \in closed
          /\ dispatcher.pc = "exited"

\* The Retry Queue is closed (all executors gone) while the dispatcher is still asleep
\* with a task and the Result Channel is still open.
C4_Witness ==
    /\ "retryQueue" \in closed
    /\ "results" \notin closed
    /\ dispatcher.pc = "sleep"
    /\ dispatcher.task.ID \in TaskIDs

\* an executor that has just taken the full-Retry-Queue branch for a retryable failure
DroppedOnFullQueue(w) ==
    /\ worker[w].pc = "send"
    /\ ~IsNil(worker[w].err)
    /\ worker[w].task.AttemptCount > 0
    /\ ShouldRetry(PolicyFor(worker[w].task.Type), worker[w].err,
                   worker[w].task.AttemptCount - 1)

\* C5: when a task fails, the policy authorizes a retry and the Retry Queue is full,
\* the executor does not block on the Retry Queue (its step is enabled and leaves the
\* queue as it was), it goes on to send a failure TaskResult, and the task is in no
\* queue and with no other goroutine, so it is never executed again.
C5_FullRetryQueueDegrades ==
    /\ [](\A w \in Workers :
            (worker[w].pc = "run" /\ ~panicked) =>
               \A err \in HandlerOutcomes \cup {Err(MsgNoProcessor)} :
                  ENABLED HandleOutcome(w, worker[w].task, err))
    /\ [][\A w \in Workers :
            ( /\ worker[w].pc = "run"
              /\ worker'[w].pc \notin {"run", "hung"}
              /\ Len(retryQueue) = RetryQueueCap
              /\ ~panicked' )
            => /\ worker'[w].pc = "send"
               /\ worker'[w].task.ID = worker[w].task.ID
               /\ retryQueue' = retryQueue]_vars
    /\ [](\A w \in Workers :
            DroppedOnFullQueue(w) =>
               /\ ~MakeResult(worker[w].task, worker[w].err, worker[w].isFinal).Success
               /\ ~Pending(worker[w].task.ID)
               /\ \A v \in Workers \ {w} : worker[v].task.ID # worker[w].task.ID)
    /\ [](\A id \in TaskIDs : emitted[id] # <<>> => ~Pending(id))

\* A result for a retryable failure was emitted because the Retry Queue was full.
C5_Witness ==
    \E id \in TaskIDs : \E r \in Range(emitted[id]) :
        /\ ~r.Success
        /\ ShouldRetry(PolicyFor(r.TaskType), r.Error, r.AttemptCount - 2)
        /\ r.AttemptCount > invoked[id]

\* C6: every TaskResult placed on the Result Channel is the terminal result of its
\* task (no attempt follows it) and carries IsFinal = TRUE.
C6_EveryResultIsFinal ==
    \A id \in TaskIDs :
        emitted[id] # <<>> =>
            /\ ~Pending(id)
            /\ \A r \in Range(emitted[id]) : r.IsFinal

\* C7: for every task submitted once through AddTask, at most one TaskResult is ever
\* placed on the Result Channel.
C7_AtMostOneResult ==
    \A id \in TaskIDs : Len(emitted[id]) <= 1

\* A task that went through the Retry Queue twice has its single result, emitted
\* after Stop() signalled shutdown.
C7_Witness ==
    \E id \in TaskIDs :
        /\ Len(emitted[id]) = 1
        /\ invoked[id] >= 3
        /\ "shutdownCh" \in closed

-----------------------------------------------------------------------------
(* Properties of the pool: categories, deadlines, ownership, backpressure *)

\* the steps executor w can take
WorkerStep(w) ==
    \/ WorkerDequeue(w)
    \/ WorkerExit(w)
    \/ WorkerExecute(w)
    \/ WorkerHang(w)
    \/ WorkerSendResult(w)

\* how many places hold task id
HoldCount(id) ==
    Cardinality({i \in 1..Len(tasks) : tasks[i].ID = id})
    + Cardinality({i \in 1..Len(retryQueue) : retryQueue[i].ID = id})
    + Cardinality({w \in Workers : worker[w].pc \in {"run", "hung", "send"}
                                     /\ worker[w].task.ID = id})
    + (IF HeldByDispatcher(id) THEN 1 ELSE 0)

\* C11: a task whose category has no registered handler is terminal and never
\* retried: no handler is invoked for it, it is never in the Retry Queue nor with the
\* dispatcher, no copy of it carries a retry count, and it gets at most one result, a
\* failure, whatever retry policy is configured for the category.
C11_UnregisteredNeverRetried ==
    \A id \in TaskIDs :
        TaskTypeOf(id) \notin DOMAIN processors =>
            /\ invoked[id] = 0
            /\ ~HeldInRetryQueue(id)
            /\ ~HeldByDispatcher(id)
            /\ \A i \in 1..Len(tasks) : tasks[i].ID = id => tasks[i].AttemptCount = 0
            /\ Len(emitted[id]) <= 1
            /\ \A r \in Range(emitted[id]) : ~r.Success

\* C12: an executor whose handler has not returned by the deadline is not stuck in the
\* call: it can go on (to handle the outcome and dequeue the next task) even if the
\* handler never returns.
C12_ExecutorAbandonsAtDeadline ==
    \A w \in Workers :
        (worker[w].pc = "hung" /\ ~panicked) => ENABLED WorkerStep(w)

\* C13: at every moment each submitted task is held by at most one of the Task Queue,
\* one executor, the Retry Queue and the retry dispatcher.
C13_SingleHolder ==
    \A id \in TaskIDs : HoldCount(id) <= 1

\* One task is back in the Task Queue for a second attempt while another waits in the
\* Retry Queue.
C13_Witness ==
    /\ \E i \in 1..Len(tasks) : tasks[i].AttemptCount >= 1
    /\ Len(retryQueue) > 0
    /\ ~panicked

\* C14: the Task Queue never holds more than its capacity; while it is full (and
\* open) no AddTask call completes and no resubmission by the dispatcher completes,
\* the queue only shrinks by a dequeue, and the task of the waiting AddTask call is
\* not consumed (it is the next one enqueued).
C14_TaskQueueBackpressure ==
    /\ [](Len(tasks) <= TasksCap)
    /\ []((Len(tasks) = TasksCap /\ "tasks" \notin closed) => ~ENABLED AddTask)
    /\ [][(Len(tasks) = TasksCap /\ "tasks" \notin closed) =>
            /\ submitted' = submitted
            /\ tasks' = tasks \/ tasks' = Tail(tasks)
            /\ (dispatcher.pc = "resubmit" => dispatcher'.pc # "select")]_vars
    /\ [][submitted' # submitted =>
            /\ submitted' = submitted + 1
            /\ tasks' = Append(tasks, NewTask(submitted'))]_vars

\* The Task Queue of a started pool is full and open while an AddTask call waits
\* for room.
C14_Witness ==
    /\ Len(tasks) = TasksCap
    /\ "tasks" \notin closed
    /\ submitted < NumTasks
    /\ started
    /\ ~panicked

\* C15: an AddTask call that executes after Stop() has closed the Task Queue panics:
\* it does not block, nothing is enqueued, and the task is never executed and gets no
\* TaskResult.
C15_AddTaskAfterCloseIsFatal ==
    /\ []((("tasks" \in closed) /\ ~panicked /\ submitted < NumTasks) => ENABLED AddTask)
    /\ [][("tasks" \in closed /\ AddTask) =>
            /\ panicked'
            /\ tasks' = tasks
            /\ submitted' = submitted]_vars
    /\ [](\A id \in TaskIDs :
            id > submitted =>
               /\ invoked[id] = 0
               /\ emitted[id] = <<>>
               /\ HoldCount(id) = 0)

\* The process has panicked, and only AddTask can have done it: the Task Queue is
\* closed with a task still to submit, the dispatcher is not at its resubmission and
\* the other channels are open.
C15_Witness ==
    /\ panicked
    /\ "tasks" \in closed
    /\ submitted < NumTasks
    /\ dispatcher.pc # "resubmit"
    /\ "retryQueue" \notin closed
    /\ "results" \notin closed

\* task id is handled by the stub processor, under a policy that retries its failure
FailsOnceTask(id) ==
    /\ TaskTypeOf(id) \in DOMAIN processors
    /\ processors[TaskTypeOf(id)] = "failsOnce"
    /\ ShouldRetry(PolicyFor(TaskTypeOf(id)), Err(MsgSMTP), 0)

\* C20, as stated: a task whose handler fails its first attempt with a retryable
\* failure and succeeds on every later attempt ends with a TaskResult that has
\* Success = TRUE and AttemptCount = 2.
C20_FailsOnceEndsInSuccess ==
    \A id \in TaskIDs :
        FailsOnceTask(id) =>
            \A r \in Range(emitted[id]) : r.Success /\ r.AttemptCount = 2

\* C20, amended: such a task ends with Success = TRUE and AttemptCount = 2 after two
\* handler invocations when the Retry Queue has room at its first failure; it is
\* turned into a failure result after one invocation only when the Retry Queue is
\* full at that moment.
C20_FailsOnceEndsInSuccessUnlessDropped ==
    /\ [](\A id \in TaskIDs :
            FailsOnceTask(id) =>
               \A r \in Range(emitted[id]) :
                  \/ r.Success /\ r.AttemptCount = 2 /\ invoked[id] = 2
                  \/ ~r.Success /\ r.Error = Err(MsgSMTP) /\ invoked[id] = 1)
    /\ [][\A w \in Workers :
            ( /\ worker[w].pc = "run"
              /\ FailsOnceTask(worker[w].task.ID)
              /\ worker'[w].pc = "send"
              /\ ~IsNil(worker'[w].err) )
            => Len(retryQueue) = RetryQueueCap]_vars

\* A task of the stub processor has its successful result of the second attempt
\* while the other task is still with an executor.
C20_Witness ==
    \E id \in TaskIDs :
        /\ FailsOnceTask(id)
        /\ \E r \in Range(emitted[id]) : r.Success /\ r.AttemptCount = 2
        /\ \E other \in TaskIDs \ {id} : HeldByWorker(other)

-----------------------------------------------------------------------------
(* Properties of the pool: executors, policies, shutdown, dispatcher *)

\* executor w is a live goroutine
Live(w) == worker[w].pc \in {"idle", "run", "hung", "send"}

\* C22: no failure terminates an executor or crashes the pool: from Start() until the
\* Task Queue is closed every executor is live and the process has not panicked; an
\* executor holding a task never exits with it, whatever the outcome; and an executor
\* that has a failure result to deliver delivers it as soon as the Result Channel has
\* room, is then idle, and dequeues the next task when there is one.
C22_FailuresKeepExecutors ==
    /\ []((started /\ "tasks" \notin closed) =>
             /\ ~panicked
             /\ Cardinality({w \in Workers : Live(w)}) = NumWorkers)
    /\ [](\A w \in Workers :
            /\ (worker[w].pc = "send" /\ ~panicked /\ "results" \notin closed
                  /\ Len(results) < ResultsCap) => ENABLED WorkerSendResult(w)
            /\ (worker[w].pc = "idle" /\ ~panicked /\ Len(tasks) > 0)
                  => ENABLED WorkerDequeue(w))
    /\ [][\A w \in Workers :
            /\ worker[w].pc \in {"run", "send"} => Live(w)'
            /\ (worker[w].pc = "send" /\ worker'[w].pc # "send") => worker'[w].pc = "idle"]_vars

\* An executor has handled a task that failed and holds its failure result, while the
\* Task Queue is open and holds a further task.
C22_Witness ==
    /\ "tasks" \notin closed
    /\ Len(tasks) > 0
    /\ Len(results) < ResultsCap
    /\ \E w \in Workers : worker[w].pc = "send" /\ ~IsNil(worker[w].err)

\* an executor or the dispatcher reads the policy table in this step
ReadsPolicy ==
    \/ \E w \in Workers :
          /\ worker[w].pc = "run"
          /\ \/ worker'[w].pc = "send" /\ ~IsNil(worker'[w].err)
             \/ worker'[w].pc = "idle" /\ retryQueue' # retryQueue
    \/ dispatcher.pc = "select" /\ dispatcher'.pc = "sleep"

\* C23: SetRetryPolicy can be called while executors and the dispatcher run: no
\* reader reads the policy table while it is being written and the process does not
\* abort, the write changes only the named category's entry, and every retry decision
\* made after the call returned uses the policy written last.
C23_SetRetryPolicyNeverRaces ==
    /\ [][setPolicy.pc = "writing" => (~ReadsPolicy /\ ~panicked')]_vars
    /\ [][retryPolicies' # retryPolicies =>
            /\ retryPolicies'[setPolicy.type] = setPolicy.policy
            /\ \A t \in DOMAIN retryPolicies \ {setPolicy.type} :
                  retryPolicies'[t] = retryPolicies[t]]_vars
    /\ [][\A w \in Workers :
            (worker[w].pc = "run" /\ worker'[w].pc = "idle" /\ retryQueue' # retryQueue)
               => ShouldRetry(PolicyFor(worker[w].task.Type),
                              retryQueue'[Len(retryQueue')].LastError,
                              worker[w].task.AttemptCount)]_vars

\* C24: with handlers that always return and a consumer that keeps pulling, a Stop()
\* call made in any reachable state terminates: after it is called the process does
\* not crash, and the call eventually returns.
C24_StopReturns ==
    /\ [](stop # "idle" => ~panicked)
    /\ (stop = "closeTasks") ~> (stop = "returned")

\* C25: every task that is in the Task Queue when Stop() closes it is dequeued by an
\* executor, and the executors have not all exited while the closed queue holds a task.
C25_QueuedTasksDrained ==
    /\ []((\A w \in Workers : worker[w].pc = "exited") => tasks = <<>>)
    /\ \A id \in TaskIDs : ("tasks" \in closed /\ HeldInTasks(id)) ~> HeldByWorker(id)

-----------------------------------------------------------------------------
(* Properties of the monitor *)

\* C16: OnTaskResult never blocks: it can always be called; when the inlet is full the
\* update is dropped and the call returns with the inlet and the aggregate unchanged;
\* when the inlet has room the result is enqueued at its end.
C16_OnTaskResultNeverBlocks ==
    /\ [](notified < MaxNotified =>
            \A result \in MonitorResults : ENABLED OnTaskResult(result))
    /\ [][\A result \in MonitorResults :
            OnTaskResult(result) =>
               /\ IF Len(updateCh) = UpdateChCap
                  THEN updateCh' = updateCh /\ dropped' = dropped + 1
                  ELSE updateCh' = Append(updateCh, result) /\ dropped' = dropped
               /\ stats' = stats
               /\ maps' = maps
               /\ mutex' = mutex
               /\ updateLoop' = updateLoop]_vars

\* An update has been dropped at the full inlet, which still holds what it held,
\* while the aggregator is in the middle of applying an earlier result.
C16_Witness ==
    /\ dropped > 0
    /\ Len(updateCh) = UpdateChCap
    /\ stats.TotalTasks = 0
    /\ updateLoop.pc = "select"

\* C17: every snapshot GetStats returns is consistent: TotalTasks equals
\* CompletedTasks + FailedTasks, and for every category Succeeded + Failed <= Total.
C17_SnapshotsConsistent ==
    \A i \in 1..Len(snapshots) :
        LET s == snapshots[i].returned
        IN  /\ s.TotalTasks = s.CompletedTasks + s.FailedTasks
            /\ \A t \in DOMAIN s.TaskTypeStats :
                  s.TaskTypeStats[t].Succeeded + s.TaskTypeStats[t].Failed
                     <= s.TaskTypeStats[t].Total

\* Two snapshots taken on either side of an application of a result, while the
\* aggregator is in the middle of applying another one.
C17_Witness ==
    /\ Len(snapshots) >= 2
    /\ snapshots[1].returned.TotalTasks < snapshots[2].returned.TotalTasks
    /\ mutex = "W"

\* C18: a snapshot is an independent copy: while its caller has not written to it, it
\* stays as it was returned whatever the aggregator and the other callers do; and a
\* caller writing to its snapshot or to the snapshot's map changes neither the live
\* aggregate nor any other snapshot.
C18_SnapshotsIndependent ==
    /\ [](\A i \in 1..Len(snapshots) :
            ~snapshots[i].mutated => View(snapshots[i].stats) = snapshots[i].returned)
    /\ [][\A i \in 1..Len(snapshots) :
            MutateSnapshot(i) =>
               /\ View(stats)' = View(stats)
               /\ \A j \in 1..Len(snapshots) :
                     j # i => View(snapshots[j].stats)' = View(snapshots[j].stats)]_vars

\* The caller of the first snapshot has written to it, the second snapshot holds
\* statistics, and the aggregator has applied a result since the second was returned.
C18_Witness ==
    /\ Len(snapshots) >= 2
    /\ snapshots[1].mutated
    /\ ~snapshots[2].mutated
    /\ snapshots[2].returned.TotalTasks >= 1
    /\ stats.TotalTasks > snapshots[2].returned.TotalTasks
    /\ DOMAIN maps[stats.TaskTypeStats] # DOMAIN snapshots[2].returned.TaskTypeStats

\* the pool and the monitor are running and idle: every submitted task has left the
\* queues, the executors and the dispatcher, main has forwarded every result it
\* pulled, and the aggregator has applied everything the inlet held
Drained ==
    /\ started
    /\ submitted >= 1
    /\ \A id \in TaskIDs : HoldCount(id) = 0
    /\ results = <<>>
    /\ consumer.pc = "get"
    /\ updateCh = <<>>
    /\ updateLoop.pc = "select"

\* C19, as stated: once N tasks have been submitted to a running pool, every result
\* has been forwarded to OnTaskResult and everything has drained,
\* CompletedTasks + FailedTasks = N and TotalTasks = N.
C19_AllResultsCounted ==
    Drained =>
        /\ stats.CompletedTasks + stats.FailedTasks = submitted
        /\ stats.TotalTasks = submitted

\* C19, amended: at that point the counters account for every forwarded result except
\* those OnTaskResult dropped at a full inlet, and nothing is dropped while N does not
\* exceed the inlet's capacity.
C19_AllAcceptedResultsCounted ==
    Drained =>
        /\ notified = submitted
        /\ stats.CompletedTasks + stats.FailedTasks = submitted - dropped
        /\ stats.TotalTasks = submitted - dropped
        /\ (submitted <= UpdateChCap => dropped = 0)

\* Every task has been submitted and has drained, nothing was dropped, and the
\* aggregate counts a success and a failure.
C19_Witness ==
    /\ Drained
    /\ submitted = NumTasks
    /\ dropped = 0
    /\ stats.CompletedTasks >= 1
    /\ stats.FailedTasks >= 1

-----------------------------------------------------------------------------
(* monitor.go on its own: updateStats applied to bounded sequences of results *)

\* number of results applied
MaxApplied == 3
\* largest latency of these results, in milliseconds
MaxStatLatency == 3

\* results of two categories with every latency up to MaxStatLatency
LatencyResults ==
    {ResultOf(type, 0, NilErr, d) : type \in {"email", "image"}, d \in 0..MaxStatLatency}

UpdateStatsInputs ==
    [op : {"updateStats"},
     pending : UNION {[1..k -> LatencyResults] : k \in 1..MaxApplied},
     applied : {<<>>},
     stats : {ZeroPoolStats(1)},
     typeStats : {EmptyMap}]

InitUpdateStats ==
    /\ InitPool(NewWorkerPool)
    /\ probe \in UpdateStatsInputs
    /\ NewMonitor

\* m.updateStats(result) for the next pending result, from Lock to Unlock
CallUpdateStats ==
    /\ probe.op = "updateStats"
    /\ Len(probe.pending) > 0
    /\ LET result == Head(probe.pending) IN
       probe' = [probe EXCEPT
                   !.pending = Tail(@),
                   !.applied = Append(@, result),
                   !.stats = WithOutcome([@ EXCEPT !.TotalTasks = @ + 1], result),
                   !.typeStats = MapStore(@, result.TaskType,
                                          WithResult(MapLoad(@, result.TaskType), result))]
    /\ UNCHANGED <<poolVars, monVars>>

NextUpdateStats == CallUpdateStats

SpecUpdateStats == InitUpdateStats /\ [][NextUpdateStats]_vars

RECURSIVE SumLatency(_)
SumLatency(rs) == IF rs = <<>> THEN 0 ELSE Head(rs).TotalDuration + SumLatency(Tail(rs))

\* the results of rs that belong to category type, in order
OfType(rs, type) == SelectSeq(rs, LAMBDA r : r.TaskType = type)

\* the fraction avg is the arithmetic mean of the latencies of rs
IsMeanOf(avg, rs) == avg[2] > 0 /\ avg[1] * Len(rs) = SumLatency(rs) * avg[2]

-----------------------------------------------------------------------------
(* retry.go on its own: the policy functions applied to bounded inputs *)

\* longest error message
MaxMsgLen == 3
\* longest retryable-error signature
MaxSigLen == 2
\* largest MaxRetries
MaxRetriesBound == 2
\* largest InitialDelay and MaxDelay, in ticks
MaxDuration == 4
\* largest attemptCount passed to CalculateRetryDelay
MaxAttempt == 4

\* one letter in both cases
Alphabet == {"a", "A"}
Strings(n) == UNION {[1..k -> Alphabet] : k \in 0..n}
Signatures == Strings(MaxSigLen)
SignatureLists ==
    {<<>>} \cup {<<x>> : x \in Signatures} \cup {<<x, y>> : x, y \in Signatures}

ShouldRetryInputs ==
    [op : {"ShouldRetry"},
     rp : [MaxRetries : 0..MaxRetriesBound, InitialDelay : {1}, MaxDelay : {3},
           BackoffFactor : {<<2, 1>>}, RetryableErrors : SignatureLists],
     err : {NilErr} \cup {Err(m) : m \in Strings(MaxMsgLen)},
     attemptCount : (-1)..(MaxRetriesBound + 1),
     done : {FALSE},
     result : {FALSE}]

InitShouldRetry ==
    /\ InitPool(NewWorkerPool)
    /\ probe \in ShouldRetryInputs
    /\ NewMonitor

\* result := rp.ShouldRetry(err, attemptCount)
CallShouldRetry ==
    /\ probe.op = "ShouldRetry"
    /\ ~probe.done
    /\ probe' = [probe EXCEPT !.done = TRUE,
                              !.result = ShouldRetry(probe.rp, probe.err, probe.attemptCount)]
    /\ UNCHANGED <<poolVars, monVars>>

NextShouldRetry == CallShouldRetry

SpecShouldRetry == InitShouldRetry /\ [][NextShouldRetry]_vars

\* BackoffFactor 0.5, 1.0, 1.5, 2.0, 2.5
BackoffFactors == {<<1, 2>>, <<1, 1>>, <<3, 2>>, <<2, 1>>, <<5, 2>>}

DelayPolicies ==
    [MaxRetries : {3}, InitialDelay : (-1)..MaxDuration, MaxDelay : 0..MaxDuration,
     BackoffFactor : BackoffFactors, RetryableErrors : {<<>>}]
    \cup {TaskTypeRetryPolicies[t] : t \in DOMAIN TaskTypeRetryPolicies}
    \cup {DefaultRetryPolicy}

DelayInputs ==
    [op : {"CalculateRetryDelay"},
     rp : DelayPolicies,
     attemptCount : (-1)..MaxAttempt,
     done : {FALSE},
     result : {0}, resultNext : {0}, resultZero : {0}]

InitDelay ==
    /\ InitPool(NewWorkerPool)
    /\ probe \in DelayInputs
    /\ NewMonitor

\* rp.CalculateRetryDelay at attemptCount, attemptCount + 1 and 0
CallCalculateRetryDelay ==
    /\ probe.op = "CalculateRetryDelay"
    /\ ~probe.done
    /\ probe' = [probe EXCEPT
                   !.done = TRUE,
                   !.result = CalculateRetryDelay(probe.rp, probe.attemptCount),
                   !.resultNext = CalculateRetryDelay(probe.rp, probe.attemptCount + 1),
                   !.resultZero = CalculateRetryDelay(probe.rp, 0)]
    /\ UNCHANGED <<poolVars, monVars>>

NextDelay == CallCalculateRetryDelay

SpecDelay == InitDelay /\ [][NextDelay]_vars

-----------------------------------------------------------------------------
(* Properties of the policy functions *)

Min(a, b) == IF a <= b THEN a ELSE b

\* sig is a prefix of msg, character for character
IsPrefix(sig, msg) ==
    /\ Len(msg) >= Len(sig)
    /\ \A i \in 1..Len(sig) : msg[i] = sig[i]

\* sig occurs in msg at some position other than its start, and not at its start
OnlyInside(sig, msg) ==
    /\ ~IsPrefix(sig, msg)
    /\ \E k \in 1..Len(msg) :
          /\ k + Len(sig) <= Len(msg)
          /\ \A i \in 1..Len(sig) : msg[k + i] = sig[i]

\* the integer r is the rational n/d (d > 0) rounded toward zero
IsTruncOf(r, n, d) ==
    IF n >= 0 THEN r * d <= n /\ n < (r + 1) * d
              ELSE r * d >= n /\ n > (r - 1) * d

\* C8, as stated: ShouldRetry is false for a nil failure, false when attemptCount >=
\* MaxRetries, and otherwise true exactly when the failure text begins with one of the
\* policy's signatures, for every failure text and every signature list.
C8_ShouldRetryAnyPrefix ==
    (probe.op = "ShouldRetry" /\ probe.done) =>
        probe.result =
            ( /\ ~IsNil(probe.err)
              /\ probe.attemptCount < probe.rp.MaxRetries
              /\ \E i \in 1..Len(probe.rp.RetryableErrors) :
                    IsPrefix(probe.rp.RetryableErrors[i], ErrorMsg(probe.err)) )

\* C8, amended: ... true exactly when the failure text begins with one of the policy's
\* non-empty signatures (an empty signature matches nothing).
C8_ShouldRetryNonEmptyPrefix ==
    (probe.op = "ShouldRetry" /\ probe.done) =>
        probe.result =
            ( /\ ~IsNil(probe.err)
              /\ probe.attemptCount < probe.rp.MaxRetries
              /\ \E i \in 1..Len(probe.rp.RetryableErrors) :
                    /\ probe.rp.RetryableErrors[i] # <<>>
                    /\ IsPrefix(probe.rp.RetryableErrors[i], ErrorMsg(probe.err)) )

\* ShouldRetry answered false, below MaxRetries, for a failure text that holds the
\* policy's only signature inside it but does not begin with it.
C8_Witness ==
    /\ probe.op = "ShouldRetry"
    /\ probe.done
    /\ ~probe.result
    /\ ~IsNil(probe.err)
    /\ probe.attemptCount < probe.rp.MaxRetries
    /\ Len(probe.rp.RetryableErrors) = 1
    /\ probe.rp.RetryableErrors[1] # <<>>
    /\ OnlyInside(probe.rp.RetryableErrors[1], ErrorMsg(probe.err))

WellFormedPolicy(rp) ==
    /\ 0 <= rp.InitialDelay
    /\ rp.InitialDelay <= rp.MaxDelay
    /\ rp.BackoffFactor[1] >= rp.BackoffFactor[2]

-----------------------------------------------------------------------------
(* Properties of the pool: retry routing and the dispatcher *)

\* policy rp authorizes a retry of a failure with text msg after attemptCount retries
Authorizes(rp, msg, attemptCount) ==
    /\ attemptCount < rp.MaxRetries
    /\ \E i \in 1..Len(rp.RetryableErrors) :
          Len(rp.RetryableErrors[i]) > 0 /\ IsPrefix(rp.RetryableErrors[i], msg)

\* the failures an attempt of task can end with
FailuresOf(task) ==
    IF task.Type \in DOMAIN processors
    THEN {err \in ProcessorOutcomes(processors[task.Type], task) : ~IsNil(err)}
    ELSE {Err(MsgNoProcessor)}

\* C26: a task enters the Retry Queue only from an executor whose attempt of it failed
\* with a failure that the category's policy authorizes (a signature is a prefix of the
\* failure text and the attempt count is below MaxRetries); the queued task is the same
\* task with its attempt count incremented by exactly 1 and that failure as LastError.
\* With the policy fixed, the handler of a task is invoked at most MaxRetries + 1 times.
C26_RetryOnlyWhenAuthorized ==
    /\ [][Len(retryQueue') > Len(retryQueue) =>
            \E w \in Workers :
               LET task == worker[w].task
                   queued == retryQueue'[Len(retryQueue')]
               IN  /\ worker[w].pc = "run"
                   /\ worker'[w].pc = "idle"
                   /\ retryQueue' = Append(retryQueue, queued)
                   /\ queued = [task EXCEPT !.AttemptCount = task.AttemptCount + 1,
                                            !.LastError = queued.LastError]
                   /\ queued.LastError \in FailuresOf(task)
                   /\ Authorizes(PolicyFor(task.Type), ErrorMsg(queued.LastError),
                                 task.AttemptCount)]_vars
    /\ [](\A id \in TaskIDs : invoked[id] <= PolicyFor(TaskTypeOf(id)).MaxRetries + 1)

\* A task has used all its retries: its handler was invoked MaxRetries + 1 times, more
\* than twice, and its last failure has been emitted.
C26_Witness ==
    \E id \in TaskIDs :
        /\ invoked[id] = PolicyFor(TaskTypeOf(id)).MaxRetries + 1
        /\ invoked[id] > 2
        /\ \E r \in Range(emitted[id]) : ~r.Success /\ r.IsFinal

InPool(id) == HoldCount(id) > 0

\* C28: in a started pool on which Stop is not called, whose handlers always return
\* and whose consumer keeps pulling, every task accepted by AddTask eventually yields
\* exactly one TaskResult, and producers, executors and dispatcher are never all
\* blocked: nothing crashes, and while a task is in the pool or a result is in the
\* Result Channel, an executor, the dispatcher or the consumer can take a step.
C28_EveryTaskYieldsOneResult ==
    /\ \A id \in TaskIDs : (started /\ id <= submitted) ~> (Len(emitted[id]) = 1)
    /\ [](\A id \in TaskIDs : Len(emitted[id]) <= 1)
    /\ [](\A id \in TaskIDs : (Len(emitted[id]) = 1 => ~InPool(id)))
    /\ [](~panicked)
    /\ []((started /\ ((\E id \in TaskIDs : InPool(id)) \/ results # <<>>)) =>
             ENABLED ((\E w \in Workers : RunningWorkerStep(w))
                      \/ RunningDispatcherStep \/ GetResult))

\* Every task was accepted and has yielded its one result, one of them after the
\* dispatcher resubmitted it, and the consumer has pulled them all.
C28_Witness ==
    /\ started
    /\ submitted = NumTasks
    /\ \A id \in TaskIDs : Len(emitted[id]) = 1 /\ ~InPool(id)
    /\ \E id \in TaskIDs : emitted[id][1].AttemptCount >= 2
    /\ results = <<>>
    /\ ~panicked

\* C29: no goroutine of the pool ever sends on a closed channel, in any interleaving
\* of Stop with the pool: an executor holding a task (about to send to the Retry Queue
\* or to the Result Channel) never coexists with either channel closed, and the
\* dispatcher never takes the send case of its resubmission once the Task Queue is
\* closed.
C29_NoSendOnClosedChannel ==
    /\ [](\A w \in Workers : worker[w].pc \in {"run", "send"} =>
             /\ "retryQueue" \notin closed
             /\ "results" \notin closed)
    /\ [][~ /\ dispatcher.pc = "resubmit"
            /\ "tasks" \in closed
            /\ ~panicked
            /\ panicked']_vars

====
